---------------------------- MODULE Spec2Model ----------------------------
(***************************************************************************)
(* Model of core/src/templates.rs: the Qwen3 reranker prompt template, the *)
(* model-name classifier and the template factory.                         *)
(*                                                                         *)
(* A Rust &str / String is a TLA+ string (all texts of the source are      *)
(* ASCII, so bytes and characters coincide).  An Option<T> is a sequence   *)
(* of length at most one: None is << >> and Some(x) is <<x>>.              *)
(* A Box<dyn TemplateFormatter> is a handle: an index into the heap        *)
(* `templates` of constructed Qwen3RerankerTemplate values.                *)
(***************************************************************************)
EXTENDS Integers, Sequences, FiniteSets, TLC

VARIABLES
    templates,   \* heap of constructed Qwen3RerankerTemplate instances
    calls,       \* completed public calls, oldest first, with their results
    th           \* per thread: the frame of the call it is executing

vars == <<templates, calls, th>>

----------------------------------------------------------------------------
(* Bounds of the model                                                     *)

\* instances that may be allocated on the heap
MaxInstances == 2
\* fragments concatenated into one query / document / instruction text
MaxFrags == 1
\* fragments concatenated into one model name
MaxNameFrags == 3
\* completed calls kept in a call sequence of SpecCalls
MaxCalls == 3
\* concurrently executing callers of SpecConc
NumThreads == 2

----------------------------------------------------------------------------
(* Option<T>                                                               *)

None == << >>

Some(x) == <<x>>

\* unwrap_or with a slip: an empty instruction is treated as an absent one
unwrap_or_EmptyIsAbsent(opt, default) ==
    IF opt = None \/ opt = Some("") THEN default ELSE opt[1]

\* Option::unwrap_or, templates.rs line 34
unwrap_or(opt, default) == IF opt = None THEN default ELSE opt[1]

----------------------------------------------------------------------------
(* Texts of the source                                                     *)

\* templates.rs line 22
DEFAULT_INSTRUCTION ==
    "Given a web search query, retrieve relevant passages that answer the query"

\* templates.rs line 39
SYSTEM_OPEN == "<|im_start|>system\n"

\* templates.rs line 40
SYSTEM_BODY ==
    "Judge whether the Document meets the requirements based on the Query and the Instruct provided. Note that the answer can only be \"yes\" or \"no\".<|im_end|>\n"

\* templates.rs line 43
USER_OPEN == "<|im_start|>user\n"

\* the closing marker of the user block without its newline
USER_CLOSE_NoNewline == "<|im_end|>"

\* templates.rs line 47
USER_CLOSE == "<|im_end|>\n"

\* templates.rs line 50
ASSISTANT_OPEN == "<|im_start|>assistant\n"

----------------------------------------------------------------------------
(* String                                                                  *)

\* a buffer kept between calls and handed out without being cleared: it
\* still holds the output of the last completed format_rerank call
String_with_capacity_Reused(capacity) ==
    LET done == {k \in DOMAIN calls : calls[k].op = "format_rerank"}
    IN  IF done = {} THEN ""
        ELSE calls[CHOOSE k \in done : \A j \in done : j <= k].result

\* one buffer shared by all callers: a call starts on whatever a call in
\* progress has written so far
String_with_capacity_Shared(capacity) ==
    LET busy == {t \in DOMAIN th : th[t].op = "format_rerank" /\ th[t].result # ""}
    IN  IF busy = {} THEN "" ELSE th[CHOOSE t \in busy : TRUE].result

\* String::with_capacity: an empty buffer; the capacity is only a hint
String_with_capacity(capacity) == ""

\* String::push_str
push_str(buf, s) == buf \o s

\* a writer that reports an error when asked to write nothing
write_str_FailsOnEmpty(buf, s) == [ok |-> s # "", buf |-> buf \o s]

\* <String as fmt::Write>::write_str: appends and returns Ok(())
write_str(buf, s) == [ok |-> TRUE, buf |-> buf \o s]

\* write!(&mut buf, "<pre>{}<post>", arg), as core::fmt::write runs it: each
\* non-empty piece of the format string and the argument's Display output
\* (for a &str without width or precision, the text itself) go to write_str
\* in order; the first failing write_str ends the call with Err
write_fmt(buf, pre, arg, post) ==
    LET w1 == IF pre = "" THEN [ok |-> TRUE, buf |-> buf] ELSE write_str(buf, pre)
        w2 == IF w1.ok THEN write_str(w1.buf, arg) ELSE w1
        w3 == IF w2.ok /\ post # "" THEN write_str(w2.buf, post) ELSE w2
    IN  w3

\* str::contains(&str): the positions of s are tried left to right for a
\* match of pat
RECURSIVE contains_from(_, _, _)
contains_from(s, pat, i) ==
    IF i + Len(pat) - 1 > Len(s) THEN FALSE
    ELSE IF SubSeq(s, i, i + Len(pat) - 1) = pat THEN TRUE
    ELSE contains_from(s, pat, i + 1)

str_contains(s, pat) == contains_from(s, pat, 1)

----------------------------------------------------------------------------
(* Qwen3RerankerTemplate                                                   *)

\* a constructor that leaves the default instruction empty
Qwen3RerankerTemplate_new_Empty == [default_instruction |-> ""]

\* Qwen3RerankerTemplate::new, lines 20-24
Qwen3RerankerTemplate_new == [default_instruction |-> DEFAULT_INSTRUCTION]

\* The frame of a format_rerank call about to execute line 34.  `self` is the
\* handle of the shared instance; everything else is local to the call.
format_rerank_enter(self, query, document, instruction) ==
    [op |-> "format_rerank", pc |-> "L34", self |-> self, query |-> query,
     document |-> document, instruction |-> instruction,
     instruction_ |-> "", result |-> ""]

\* the statements in an order that writes the document line (46) before the
\* query line (45)
after_DocumentFirst(pc) ==
    CASE pc = "L34" -> "L36"
      [] pc = "L36" -> "L39"
      [] pc = "L39" -> "L40"
      [] pc = "L40" -> "L43"
      [] pc = "L43" -> "L44"
      [] pc = "L44" -> "L46"
      [] pc = "L46" -> "L45"
      [] pc = "L45" -> "L47"
      [] pc = "L47" -> "L50"
      [] pc = "L50" -> "L52"
      [] pc = "L52" -> "return"

\* The statement executed after the statement at pc: the order of the
\* statements of format_rerank, lines 34-52
after(pc) ==
    CASE pc = "L34" -> "L36"
      [] pc = "L36" -> "L39"
      [] pc = "L39" -> "L40"
      [] pc = "L40" -> "L43"
      [] pc = "L43" -> "L44"
      [] pc = "L44" -> "L45"
      [] pc = "L45" -> "L46"
      [] pc = "L46" -> "L47"
      [] pc = "L47" -> "L50"
      [] pc = "L50" -> "L52"
      [] pc = "L52" -> "return"

\* The unwrap of a write! result at lines 44-46: Ok continues with the next
\* statement, Err panics.
unwrap_write(f, w) ==
    IF w.ok THEN [f EXCEPT !.result = w.buf, !.pc = after(f.pc)]
    ELSE [f EXCEPT !.pc = "panic"]

\* One line of format_rerank, lines 34-52, executed on frame f against the
\* heap.  Only line 34 reads shared state (self.default_instruction).
format_rerank_step(heap, f) ==
    CASE f.pc = "L34" ->
           [f EXCEPT !.instruction_ =
                         unwrap_or(f.instruction, heap[f.self].default_instruction),
                     !.pc = after(f.pc)]
      [] f.pc = "L36" ->
           [f EXCEPT !.result = String_with_capacity(512), !.pc = after(f.pc)]
      [] f.pc = "L39" ->
           [f EXCEPT !.result = push_str(f.result, SYSTEM_OPEN), !.pc = after(f.pc)]
      [] f.pc = "L40" ->
           [f EXCEPT !.result = push_str(f.result, SYSTEM_BODY), !.pc = after(f.pc)]
      [] f.pc = "L43" ->
           [f EXCEPT !.result = push_str(f.result, USER_OPEN), !.pc = after(f.pc)]
      [] f.pc = "L44" ->
           unwrap_write(f, write_fmt(f.result, "<Instruct>: ", f.instruction_, "\n"))
      [] f.pc = "L45" ->
           unwrap_write(f, write_fmt(f.result, "<Query>: ", f.query, "\n"))
      [] f.pc = "L46" ->
           unwrap_write(f, write_fmt(f.result, "<Document>: ", f.document, ""))
      [] f.pc = "L47" ->
           [f EXCEPT !.result = push_str(f.result, USER_CLOSE), !.pc = after(f.pc)]
      [] f.pc = "L50" ->
           [f EXCEPT !.result = push_str(f.result, ASSISTANT_OPEN), !.pc = after(f.pc)]
      [] f.pc = "L52" ->
           [f EXCEPT !.pc = after(f.pc)]

\* a receiver that remembers the instruction it was last called with
heap_after_format_StoresInstruction(heap, f) ==
    IF f.pc \in {"L34", "L36"} THEN heap
    ELSE [heap EXCEPT ![f.self].default_instruction = f.instruction_]

\* The heap after a statement of format_rerank left the call in frame f: the
\* receiver is &self (line 29) and no statement assigns to a field of it
heap_after_format(heap, f) == heap

Finished(f) == f.pc \in {"return", "panic"}

RECURSIVE run_to_end(_, _)
run_to_end(heap, f) ==
    IF Finished(f) THEN f ELSE run_to_end(heap, format_rerank_step(heap, f))

\* format_rerank run from entry to exit without interruption: the final frame
format_rerank(heap, self, query, document, instruction) ==
    run_to_end(heap, format_rerank_enter(self, query, document, instruction))

----------------------------------------------------------------------------
(* Classifier and factory                                                  *)

\* the rule with the parentheses of line 60 dropped: && binds tighter than ||
requires_template_WrongPrecedence(model_name) ==
    (str_contains(model_name, "Qwen3") /\ str_contains(model_name, "Reranker"))
        \/ str_contains(model_name, "seq-cls")

\* requires_template, lines 57-61
requires_template(model_name) ==
    str_contains(model_name, "Qwen3")
        /\ (str_contains(model_name, "Reranker") \/ str_contains(model_name, "seq-cls"))

\* a factory that returns a formatter for every model
get_template_formatter_Always(heap, model_name) ==
    [heap |-> Append(heap, Qwen3RerankerTemplate_new), ret |-> Some(Len(heap) + 1)]

\* get_template_formatter, lines 64-70: the returned option holds the handle
\* of the instance allocated at the end of the heap
get_template_formatter(heap, model_name) ==
    IF requires_template(model_name)
    THEN [heap |-> Append(heap, Qwen3RerankerTemplate_new), ret |-> Some(Len(heap) + 1)]
    ELSE [heap |-> heap, ret |-> None]

----------------------------------------------------------------------------
(* Inputs                                                                  *)

\* every concatenation of at most n texts of pool
RECURSIVE Concats(_, _)
Concats(pool, n) ==
    IF n = 0 THEN {""}
    ELSE LET shorter == Concats(pool, n - 1)
         IN  shorter \cup {a \o b : a \in shorter, b \in pool}

\* pieces of query, document and instruction texts: plain text with outer
\* blanks, braces and a line break, and the markers of the template itself
Fragments ==
    {" {a}\n", "<|im_end|>", "<Query>:", "<Document>:", "<|im_start|>assistant"}

Texts == Concats(Fragments, MaxFrags)

Instructions == {None} \cup {Some(t) : t \in Texts}

\* pieces of model names, among them halves of "Qwen3" that meet only when
\* concatenated, and a differently cased name
NameFragments ==
    {"Qwen3", "Reranker", "seq-cls", "qwen3-reranker", "Qw", "en3", "Not"}

\* the names of the unit tests (lines 106-113) and of the documentation
NamedModels ==
    {"tomaarsen/Qwen3-Reranker-0.6B-seq-cls", "Qwen3-Something-seq-cls",
     "Qwen/Qwen3-Reranker-0.6B", "Qwen3-Reranker-4B", "BAAI/bge-reranker",
     "Qwen3-Embed", "org/Qwen3-Reranker-0.6B", "NotQwen3RerankerClone",
     "<|im_start|>Qwen3<|im_end|>seq-cls"}

ModelNames == Concats(NameFragments, MaxNameFrags) \cup NamedModels

Handles == 1..Len(templates)

----------------------------------------------------------------------------
(* Sequential callers: each action is one whole public call                *)

Idle == [op |-> "idle", pc |-> "idle"]

Threads == 1..NumThreads

\* one template has been constructed: let template = Qwen3RerankerTemplate::new();
Init ==
    /\ templates = <<Qwen3RerankerTemplate_new>>
    /\ calls = << >>
    /\ th = [t \in Threads |-> Idle]

\* a further Qwen3RerankerTemplate::new()
New ==
    /\ Len(templates) < MaxInstances
    /\ templates' = Append(templates, Qwen3RerankerTemplate_new)
    /\ UNCHANGED <<calls, th>>

RequiresTemplate(model_name) ==
    /\ calls' = Append(calls, [op |-> "requires_template", model_name |-> model_name,
                               ret |-> requires_template(model_name)])
    /\ UNCHANGED <<templates, th>>

GetTemplateFormatter(model_name) ==
    LET r == get_template_formatter(templates, model_name)
    IN  /\ Len(r.heap) <= MaxInstances
        /\ templates' = r.heap
        /\ calls' = Append(calls, [op |-> "get_template_formatter",
                                   model_name |-> model_name, ret |-> r.ret])
        /\ UNCHANGED th

FormatRerank(self, query, document, instruction) ==
    LET f == format_rerank(templates, self, query, document, instruction)
    IN  /\ calls' = Append(calls, f)
        /\ templates' = heap_after_format(templates, f)
        /\ UNCHANGED th

\* Spec: one public call on the constructed template, with inputs of every
\* shape
Next ==
    \/ Len(calls) < 1 /\ \E n \in ModelNames : RequiresTemplate(n)
    \/ Len(calls) < 1 /\ \E n \in ModelNames : GetTemplateFormatter(n)
    \/ Len(calls) < 1 /\ \E self \in Handles, q \in Texts, d \in Texts, i \in Instructions :
                              FormatRerank(self, q, d, i)

Spec == Init /\ [][Next]_vars

----------------------------------------------------------------------------
(* Sequences of calls: instances are constructed directly or by the        *)
(* factory and formatted with in any order                                 *)

SmallQueries == {"q"}

SmallDocuments == {"", "d"}

SmallInstructions == {None, Some(""), Some("c")}

SmallNames == {"Qwen3-Reranker-4B", "Qwen3-Embed"}

NextCalls ==
    \/ New
    \/ Len(calls) < MaxCalls /\ \E n \in SmallNames : GetTemplateFormatter(n)
    \/ Len(calls) < MaxCalls /\
           \E self \in Handles, q \in SmallQueries, d \in SmallDocuments,
              i \in SmallInstructions : FormatRerank(self, q, d, i)

SpecCalls == Init /\ [][NextCalls]_vars

----------------------------------------------------------------------------
(* Concurrent callers: each thread executes its call one statement at a    *)
(* time, interleaved with the statements of the other threads              *)

\* a thread calls format_rerank on a shared instance
BeginFormat(t, self, query, document, instruction) ==
    /\ th[t] = Idle
    /\ th' = [th EXCEPT ![t] = format_rerank_enter(self, query, document, instruction)]
    /\ UNCHANGED <<templates, calls>>

\* the thread executes its next statement of format_rerank
StepFormat(t) ==
    /\ th[t].op = "format_rerank"
    /\ ~Finished(th[t])
    /\ th' = [th EXCEPT ![t] = format_rerank_step(templates, th[t])]
    /\ templates' = heap_after_format(templates, th'[t])
    /\ UNCHANGED calls

\* a thread calls get_template_formatter
BeginGet(t, model_name) ==
    /\ th[t] = Idle
    /\ th' = [th EXCEPT ![t] = [op |-> "get_template_formatter", pc |-> "L65",
                                model_name |-> model_name, ret |-> None]]
    /\ UNCHANGED <<templates, calls>>

\* line 65: the condition of the if
StepGetTest(t) ==
    /\ th[t].op = "get_template_formatter"
    /\ th[t].pc = "L65"
    /\ th' = [th EXCEPT ![t].pc =
                  IF requires_template(th[t].model_name) THEN "L66" ELSE "L68"]
    /\ UNCHANGED <<templates, calls>>

\* line 66: Some(Box::new(Qwen3RerankerTemplate::new()))
StepGetSome(t) ==
    /\ th[t].op = "get_template_formatter"
    /\ th[t].pc = "L66"
    /\ Len(templates) < MaxInstances
    /\ templates' = Append(templates, Qwen3RerankerTemplate_new)
    /\ th' = [th EXCEPT ![t].ret = Some(Len(templates) + 1), ![t].pc = "return"]
    /\ UNCHANGED calls

\* line 68: None
StepGetNone(t) ==
    /\ th[t].op = "get_template_formatter"
    /\ th[t].pc = "L68"
    /\ th' = [th EXCEPT ![t].ret = None, ![t].pc = "return"]
    /\ UNCHANGED <<templates, calls>>

\* the call returns to its caller, which drops the result
Return(t) ==
    /\ th[t].pc = "return"
    /\ th' = [th EXCEPT ![t] = Idle]
    /\ UNCHANGED <<templates, calls>>

ConcDocuments == {"d"}

ConcInstructions == {None, Some("c")}

NextConc ==
    \E t \in Threads :
        \/ \E self \in Handles, q \in SmallQueries, d \in ConcDocuments,
              i \in ConcInstructions : BeginFormat(t, self, q, d, i)
        \/ StepFormat(t)
        \/ \E n \in SmallNames : BeginGet(t, n)
        \/ StepGetTest(t)
        \/ StepGetSome(t)
        \/ StepGetNone(t)
        \/ Return(t)

SpecConc == Init /\ [][NextConc]_vars

----------------------------------------------------------------------------
(* The texts and notions the specification document states its properties  *)
(* with, written out independently of the definitions above                *)

\* pat occurs in s at position i (1-based)
OccursAt(s, pat, i) ==
    \/ pat = ""
    \/ SubSeq(s, i, i) = SubSeq(pat, 1, 1) /\ SubSeq(s, i, i + Len(pat) - 1) = pat

Occurs(s, pat) == \E i \in 1..(Len(s) - Len(pat) + 1) : OccursAt(s, pat, i)

\* position of the first occurrence of pat in s, 0 when there is none
FirstIndex(s, pat) ==
    IF ~Occurs(s, pat) THEN 0
    ELSE CHOOSE i \in 1..(Len(s) - Len(pat) + 1) :
             OccursAt(s, pat, i) /\ \A j \in 1..(i - 1) : ~OccursAt(s, pat, j)

EndsWith(s, suffix) ==
    Len(suffix) <= Len(s) /\ SubSeq(s, Len(s) - Len(suffix) + 1, Len(s)) = suffix

DefaultInstructionText ==
    "Given a web search query, retrieve relevant passages that answer the query"

JudgeSentence ==
    "Judge whether the Document meets the requirements based on the Query and the Instruct provided. Note that the answer can only be \"yes\" or \"no\"."

\* the prompt of section 6 of the document for an effective instruction
ExpectedPrompt(instruction_text, query, document) ==
    "<|im_start|>system\n" \o JudgeSentence \o "<|im_end|>\n"
        \o "<|im_start|>user\n"
        \o "<Instruct>: " \o instruction_text \o "\n"
        \o "<Query>: " \o query \o "\n"
        \o "<Document>: " \o document
        \o "<|im_end|>\n"
        \o "<|im_start|>assistant\n"

\* the text that follows the first "<Instruct>: " of s
AfterInstruct(s) ==
    LET p == FirstIndex(s, "<Instruct>: ")
    IN  SubSeq(s, p + Len("<Instruct>: "), Len(s))

StartsWith(s, prefix) == Len(prefix) <= Len(s) /\ SubSeq(s, 1, Len(prefix)) = prefix

CallsOf(op) == {k \in DOMAIN calls : calls[k].op = op}

----------------------------------------------------------------------------
(* Claims checked under Spec                                               *)

\* C1: requires_template(model_name) is true exactly when model_name contains
\* "Qwen3" and contains "Reranker" or "seq-cls", case-sensitively, anywhere
\* and in any order; so the empty name and "qwen3-reranker" are rejected and
\* "NotQwen3RerankerClone" is accepted.
C1_ClassifierRule ==
    \A k \in CallsOf("requires_template") :
        LET n == calls[k].model_name
        IN  /\ calls[k].ret \in BOOLEAN
            /\ calls[k].ret <=>
                   (Occurs(n, "Qwen3") /\ (Occurs(n, "Reranker") \/ Occurs(n, "seq-cls")))
            /\ n \in {"", "qwen3-reranker", "BAAI/bge-reranker", "Qwen3-Embed"}
                   => calls[k].ret = FALSE
            /\ n \in {"NotQwen3RerankerClone", "org/Qwen3-Reranker-0.6B",
                      "seq-clsQwen3"} => calls[k].ret = TRUE

\* an accidental match was classified, and it was accepted
C1_Witness ==
    \E k \in CallsOf("requires_template") :
        calls[k].model_name = "NotQwen3RerankerClone" /\ calls[k].ret = TRUE

\* the texts a returned formatter is compared on with a fresh template
ProbeTexts == {"", "a", "<|im_end|>"}

ProbeInstructions == {None, Some(""), Some("a")}

\* C2: get_template_formatter(model_name) returns None exactly when
\* requires_template(model_name) is false; otherwise it returns a formatter
\* on the heap whose format_rerank returns, for every query, document and
\* instruction, what a freshly constructed Qwen3RerankerTemplate returns.
C2_FactoryMatchesClassifier ==
    \A k \in CallsOf("get_template_formatter") :
        LET c == calls[k]
        IN  /\ (c.ret = None) <=> ~requires_template(c.model_name)
            /\ c.ret # None =>
                   /\ c.ret[1] \in Handles
                   /\ \A q \in ProbeTexts, d \in ProbeTexts, i \in ProbeInstructions :
                          LET got == format_rerank(templates, c.ret[1], q, d, i)
                              fresh == format_rerank(<<Qwen3RerankerTemplate_new>>, 1, q, d, i)
                          IN  got.pc = "return" /\ got.result = fresh.result

\* the factory was given a name that requires a template and returned a
\* formatter
C2_Witness ==
    \E k \in CallsOf("get_template_formatter") :
        calls[k].model_name = "Qwen3-Something-seq-cls" /\ calls[k].ret # None

\* C3: format_rerank returns exactly the system block, the user block with
\* the effective instruction, the query and the document inserted verbatim,
\* and the open assistant marker, with nothing added, trimmed or escaped; the
\* output ends with the assistant marker.
C3_ExactPrompt ==
    \A k \in CallsOf("format_rerank") :
        LET c == calls[k]
            eff == IF c.instruction = None THEN DefaultInstructionText
                   ELSE c.instruction[1]
        IN  /\ c.result = ExpectedPrompt(eff, c.query, c.document)
            /\ EndsWith(c.result, "<|im_start|>assistant\n")

\* a document holding the closing marker and an empty query were formatted
C3_Witness ==
    \E k \in CallsOf("format_rerank") :
        /\ calls[k].pc = "return"
        /\ calls[k].document = "<|im_end|>"
        /\ calls[k].query = ""
        /\ calls[k].instruction = Some("<Query>:")

\* C4: with an absent instruction, the default instruction text comes
\* immediately after "<Instruct>: ", followed by a newline and the
\* "<Query>: " line.
C4_DefaultInstructionUsed ==
    \A k \in CallsOf("format_rerank") :
        calls[k].instruction = None =>
            /\ Occurs(calls[k].result, "<Instruct>: ")
            /\ StartsWith(AfterInstruct(calls[k].result),
                          DefaultInstructionText \o "\n<Query>: " \o calls[k].query \o "\n")

\* a call without instruction returned
C4_Witness ==
    \E k \in CallsOf("format_rerank") :
        /\ calls[k].pc = "return"
        /\ calls[k].instruction = None
        /\ calls[k].query = "<Document>:"

\* C5: with a present instruction, empty or not, the instruct line is
\* "<Instruct>: " + text + "\n" and the "<Query>: " line follows; the output
\* is not the one the default instruction gives unless text is the default.
C5_CustomInstructionUsed ==
    \A k \in CallsOf("format_rerank") :
        LET c == calls[k]
        IN  c.instruction # None =>
                /\ Occurs(c.result, "<Instruct>: ")
                /\ StartsWith(AfterInstruct(c.result),
                              c.instruction[1] \o "\n<Query>: " \o c.query \o "\n")
                /\ c.instruction[1] # DefaultInstructionText =>
                       c.result # ExpectedPrompt(DefaultInstructionText, c.query, c.document)

\* a call with a present but empty instruction returned
C5_Witness ==
    \E k \in CallsOf("format_rerank") :
        calls[k].pc = "return" /\ calls[k].instruction = Some("")

\* first occurrences of the four markers are in the order system, query,
\* document, assistant
MarkersInOrder(s) ==
    LET sys == FirstIndex(s, "<|im_start|>system")
        qry == FirstIndex(s, "<Query>:")
        doc == FirstIndex(s, "<Document>:")
        ast == FirstIndex(s, "<|im_start|>assistant")
    IN  0 < sys /\ sys < qry /\ qry < doc /\ doc < ast

NoLaterMarker(c) ==
    \A t \in {c.instruction_, c.query} :
        ~Occurs(t, "<Document>:") /\ ~Occurs(t, "<|im_start|>assistant")

C10_Total ==
    \A k \in DOMAIN calls :
        LET c == calls[k]
        IN  /\ c.op = "requires_template" => c.ret \in BOOLEAN
            /\ c.op = "get_template_formatter" =>
                   c.ret = None \/ (Len(c.ret) = 1 /\ c.ret[1] \in Handles)
            /\ c.op = "format_rerank" => c.pc = "return" /\ Len(c.result) > 0

\* a call with empty query, document and instruction returned
C10_Witness ==
    \E k \in CallsOf("format_rerank") :
        /\ calls[k].pc = "return"
        /\ calls[k].query = "" /\ calls[k].document = ""
        /\ calls[k].instruction = Some("")

----------------------------------------------------------------------------
(* Claims checked under SpecCalls                                          *)

SameArguments(a, b) ==
    a.query = b.query /\ a.document = b.document /\ a.instruction = b.instruction

\* C7: two format_rerank calls with identical (query, document, instruction)
\* return identical outputs, whichever instances they are made on and
\* whatever calls were completed before them.
C7_Deterministic ==
    \A j \in CallsOf("format_rerank"), k \in CallsOf("format_rerank") :
        SameArguments(calls[j], calls[k]) =>
            calls[j].pc = calls[k].pc /\ calls[j].result = calls[k].result

\* the same arguments were formatted on the constructed template and then on
\* a formatter the factory returned before
C7_Witness ==
    \E g \in CallsOf("get_template_formatter"),
       j \in CallsOf("format_rerank"), k \in CallsOf("format_rerank") :
        /\ g < j /\ j < k
        /\ calls[g].ret = Some(calls[k].self)
        /\ calls[j].self # calls[k].self
        /\ SameArguments(calls[j], calls[k])
        /\ calls[k].pc = "return"

\* C8: every instance holds the default instruction text of the constructor
\* after any sequence of calls, and a call with an absent instruction uses
\* that text also after calls with a custom instruction on the same instance.
C8_DefaultInstructionFixed ==
    /\ \A h \in Handles :
           templates[h].default_instruction = DefaultInstructionText
    /\ \A k \in CallsOf("format_rerank") :
           calls[k].instruction = None =>
               /\ calls[k].instruction_ = DefaultInstructionText
               /\ calls[k].result =
                      ExpectedPrompt(DefaultInstructionText, calls[k].query,
                                     calls[k].document)

\* a call with a custom instruction was followed by a call with an absent
\* one on the same instance
C8_Witness ==
    \E j \in CallsOf("format_rerank"), k \in CallsOf("format_rerank") :
        /\ j < k
        /\ calls[j].self = calls[k].self
        /\ calls[j].instruction = Some("c")
        /\ calls[k].instruction = None
        /\ calls[k].pc = "return"

----------------------------------------------------------------------------
(* Claims checked under SpecConc                                           *)

\* the frame a call reaches at statement pc when no other call runs
RECURSIVE AloneUntil(_, _, _)
AloneUntil(heap, f, pc) ==
    IF f.pc = pc \/ Finished(f) THEN f
    ELSE AloneUntil(heap, format_rerank_step(heap, f), pc)

Formatting == {t \in Threads : th[t].op = "format_rerank"}

Getting == {t \in Threads : th[t].op = "get_template_formatter"}

\* C9: under every interleaving, a format_rerank call is at each statement in
\* the frame it would be in had it run alone, and so returns the output it
\* would return alone; a get_template_formatter call returns what it would
\* return alone, an instance of its own when the name requires a template.
C9_CallsDoNotInterfere ==
    /\ \A t \in Formatting :
           LET f == th[t]
               entry == format_rerank_enter(f.self, f.query, f.document, f.instruction)
           IN  /\ f.pc # "panic"
               /\ f = AloneUntil(templates, entry, f.pc)
               /\ f.pc = "return" =>
                      f.result = format_rerank(templates, f.self, f.query,
                                               f.document, f.instruction).result
    /\ \A t \in Getting :
           th[t].pc = "return" =>
               /\ (th[t].ret = None) <=> ~requires_template(th[t].model_name)
               /\ th[t].ret # None =>
                      /\ th[t].ret[1] \in Handles
                      /\ templates[th[t].ret[1]] = Qwen3RerankerTemplate_new
                      /\ \A u \in Getting \ {t} : th[u].ret # th[t].ret

\* one call on an instance has returned while another call on the same
\* instance, with another instruction, is in the middle of the user block
C9_Witness ==
    \E t \in Formatting, u \in Formatting :
        /\ t # u
        /\ th[t].self = th[u].self
        /\ th[t].instruction # th[u].instruction
        /\ th[t].pc = "return"
        /\ th[u].pc = "L45"

=============================================================================
